---- MODULE Spec2Model ----
(***************************************************************************)
(* Model of youtube_downloader_qt.py (class Downloader): transcoder probe, *)
(* bootstrap installer, option builder, job runner and progress adapter.   *)
(***************************************************************************)
EXTENDS Integers, Sequences, FiniteSets, TLC

(* ------------------------------ bounds -------------------------------- *)
\* longest "_percent_str" explored by the progress-hook specification
MaxPctLen == 4
\* progress-hook calls the backend makes during one job
MaxHooks == 3
\* edits of the form fields by the user
MaxEdits == 2
\* streams offered by the backend to the format selector
MaxStreams == 2

(* --------------------------- Python values ---------------------------- *)
\* Python's None
None == "None"
\* a dict key that is absent
Missing == <<"<missing>">>
\* a value that is present but is not a str (None, a number)
NonStr == <<"<not a str>">>

\* Text is a sequence of one-character strings.
Digits == <<"0", "1", "2", "3", "4", "5", "6", "7", "8", "9">>

IsDigit(c) == \E i \in 1..10 : Digits[i] = c

DigitVal(c) == (CHOOSE i \in 1..10 : Digits[i] = c) - 1

IsSpace(c) == c = " "

\* str.replace(c, ""): every occurrence of c is removed
Replace(s, c) == SelectSeq(s, LAMBDA x : x # c)

RECURSIVE LStrip(_)
LStrip(s) == IF s # <<>> /\ IsSpace(Head(s)) THEN LStrip(Tail(s)) ELSE s

RECURSIVE RStrip(_)
RStrip(s) ==
    IF s # <<>> /\ IsSpace(s[Len(s)]) THEN RStrip(SubSeq(s, 1, Len(s) - 1)) ELSE s

\* str.strip()
Strip(s) == RStrip(LStrip(s))

AllDigits(s) == \A i \in 1..Len(s) : IsDigit(s[i])

RECURSIVE DecVal(_)
\* value of a digit string; the empty string counts 0
DecVal(s) == IF s = <<>> THEN 0 ELSE 10 * DecVal(SubSeq(s, 1, Len(s) - 1)) + DigitVal(s[Len(s)])

RECURSIVE Pow10(_)
Pow10(n) == IF n = 0 THEN 1 ELSE 10 * Pow10(n - 1)

\* position of the first "." of s, or 0
DotPos(s) == IF \E i \in 1..Len(s) : s[i] = "." THEN CHOOSE i \in 1..Len(s) : s[i] = "." /\ \A j \in 1..(i - 1) : s[j] # "." ELSE 0

\* the unsigned body of a decimal literal: digits, digits "." digits*, "." digits
IsUnsignedDec(s) ==
    LET d == DotPos(s) IN
    IF d = 0 THEN s # <<>> /\ AllDigits(s)
    ELSE /\ AllDigits(SubSeq(s, 1, d - 1))
         /\ AllDigits(SubSeq(s, d + 1, Len(s)))
         /\ Len(s) > 1

HasSign(s) == s # <<>> /\ Head(s) \in {"-", "+"}

Unsigned(s) == IF HasSign(s) THEN Tail(s) ELSE s

\* float(s) succeeds: optional surrounding whitespace, optional sign, decimal
IsFloat(s) == IsUnsignedDec(Unsigned(Strip(s)))

\* float(s) as a fraction [num, den], den a power of ten
Float(s) ==
    LET u == Unsigned(Strip(s))
        d == DotPos(u)
        ip == IF d = 0 THEN u ELSE SubSeq(u, 1, d - 1)
        fp == IF d = 0 THEN <<>> ELSE SubSeq(u, d + 1, Len(u))
        sg == IF HasSign(Strip(s)) /\ Head(Strip(s)) = "-" THEN -1 ELSE 1
    IN [num |-> sg * (DecVal(ip) * Pow10(Len(fp)) + DecVal(fp)), den |-> Pow10(Len(fp))]

\* rounding down instead of toward zero
Int_Floor(x) == IF x.num >= 0 THEN x.num \div x.den ELSE -(((-x.num) + x.den - 1) \div x.den)

\* int(x) of a float: truncation toward zero
Int_(x) == IF x.num >= 0 THEN x.num \div x.den ELSE -((-x.num) \div x.den)

(* -------------------------- progress adapter -------------------------- *)
Emit(sig, val) == [sig |-> sig, val |-> val]

\* the try block with the progress signal emitted before the speed is read
HookBody_EmitFirst(d) ==
    IF d.status = "downloading" THEN
        IF d.pct \in {Missing, NonStr} THEN [events |-> <<>>, raised |-> TRUE]
        ELSE IF ~IsFloat(Replace(d.pct, "%")) THEN [events |-> <<>>, raised |-> TRUE]
        ELSE LET pct == Float(Strip(Replace(d.pct, "%"))) IN
             IF d.speed = NonStr THEN [events |-> <<Emit("progress", Int_(pct))>>, raised |-> TRUE]
             ELSE LET speed == IF d.speed = Missing THEN <<>> ELSE Strip(d.speed)
                  IN [events |-> <<Emit("progress", Int_(pct)), Emit("speed", <<"Speed: ">> \o speed)>>,
                      raised |-> FALSE]
    ELSE IF d.status = "finished" THEN
        [events |-> <<Emit("status", <<"Processing & merging...">>), Emit("progress", 95)>>,
         raised |-> FALSE]
    ELSE [events |-> <<>>, raised |-> FALSE]

\* the try block of progress_hook: the events emitted and whether it raised
HookBody(d) ==
    IF d.status = "downloading" THEN
        IF d.pct \in {Missing, NonStr} THEN [events |-> <<>>, raised |-> TRUE]
        ELSE IF ~IsFloat(Replace(d.pct, "%")) THEN [events |-> <<>>, raised |-> TRUE]
        ELSE IF d.speed = NonStr THEN [events |-> <<>>, raised |-> TRUE]
        ELSE LET pct == Float(Strip(Replace(d.pct, "%")))
                 speed == IF d.speed = Missing THEN <<>> ELSE Strip(d.speed)
             IN [events |-> <<Emit("progress", Int_(pct)), Emit("speed", <<"Speed: ">> \o speed)>>,
                 raised |-> FALSE]
    ELSE IF d.status = "finished" THEN
        [events |-> <<Emit("status", <<"Processing & merging...">>), Emit("progress", 95)>>,
         raised |-> FALSE]
    ELSE [events |-> <<>>, raised |-> FALSE]

\* progress_hook(d): "except Exception: pass" swallows what the body raised
progress_hook(d) == [events |-> HookBody(d).events, raised |-> FALSE]

(* --------------------------- option builder --------------------------- *)
\* items of format_box and quality_box (init_ui)
FormatItems == {"MP4", "MP3"}

QualityItems == {<<"B", "e", "s", "t">>, <<"1", "0", "8", "0", "p">>, <<"7", "2", "0", "p">>, <<"4", "8", "0", "p">>}

\* one stream request of a selector: kind, [ext=...] ("" when absent) and
\* [height<=...] (the quality text; <<>> when absent)
Atom(kind, ext, maxh) == [kind |-> kind, ext |-> ext, maxh |-> maxh]

\* a top-level alternative: merges tried in order, under the group's filter
Alt(merges, noM3u8) == [merges |-> merges, noM3u8 |-> noM3u8]

\* the selector given for MP3
AudioSelector == <<Alt(<< <<Atom("bestaudio", "", <<>>)>> >>, FALSE), Alt(<< <<Atom("best", "", <<>>)>> >>, FALSE)>>

\* the selector given for MP4 with quality "Best"
BestSelector ==
    <<Alt(<< <<Atom("bestvideo", "mp4", <<>>), Atom("bestaudio", "m4a", <<>>)>>,
             <<Atom("bestvideo", "mp4", <<>>), Atom("bestaudio", "", <<>>)>>,
             <<Atom("bestvideo", "", <<>>), Atom("bestaudio", "", <<>>)>> >>, TRUE),
      Alt(<< <<Atom("best", "", <<>>)>> >>, FALSE)>>

\* a numeric selector whose last alternative is an unconstrained "best"
CeilingSelector_BestLast(quality) ==
    <<Alt(<< <<Atom("bestvideo", "mp4", quality), Atom("bestaudio", "m4a", <<>>)>>,
             <<Atom("bestvideo", "", quality), Atom("bestaudio", "", <<>>)>> >>, TRUE),
      Alt(<< <<Atom("best", "", <<>>)>> >>, FALSE)>>

\* the selector given for MP4 with a numeric quality
CeilingSelector(quality) ==
    <<Alt(<< <<Atom("bestvideo", "mp4", quality), Atom("bestaudio", "m4a", <<>>)>>,
             <<Atom("bestvideo", "", quality), Atom("bestaudio", "", <<>>)>> >>, TRUE),
      Alt(<< <<Atom("best", "", quality)>> >>, FALSE)>>

\* opts["format"] as download() sets it from the two combo boxes
FormatSelector(fmt, quality) ==
    IF fmt = "MP3" THEN AudioSelector
    ELSE IF quality = <<"B", "e", "s", "t">> THEN BestSelector
    ELSE CeilingSelector(quality)

\* quality_box.currentText().replace("p", "")
QualityOf(text) == Replace(text, "p")

\* os.path.dirname of the transcoder path
Dirname(path) == <<"dirname", path>>

\* the options download() builds from what it read (a key that is not set
\* shows as <<>> or "")
BuildOpts(out_dir, quality, fmt, path) ==
    [outtmpl |-> <<out_dir, "%(title)s.%(ext)s">>,
     ffmpeg_location |-> IF path # None THEN Dirname(path) ELSE <<>>,
     format |-> FormatSelector(fmt, quality),
     postprocessor |-> IF fmt = "MP3" THEN "FFmpegExtractAudio" ELSE "FFmpegVideoRemuxer",
     merge_output_format |-> IF fmt = "MP3" THEN "" ELSE "mp4"]

(* ---------------- the backend's evaluation of a selector --------------- *)
\* a stream: has video, has audio, height (0: none), container, transport
Stream(v, a, h, ext, proto) == [v |-> v, a |-> a, height |-> h, ext |-> ext, proto |-> proto]

StreamPool ==
    {Stream(TRUE, FALSE, 1080, "mp4", "https"), Stream(TRUE, FALSE, 2160, "webm", "https"),
     Stream(TRUE, FALSE, 360, "mp4", "m3u8"), Stream(FALSE, TRUE, 0, "m4a", "https"),
     Stream(FALSE, TRUE, 0, "webm", "https"), Stream(TRUE, TRUE, 360, "mp4", "https"),
     Stream(TRUE, TRUE, 1440, "mp4", "https"), Stream(TRUE, TRUE, 720, "mp4", "m3u8")}

\* the filters written on an atom
PassesFilters(atom, s) ==
    /\ atom.ext = "" \/ s.ext = atom.ext
    /\ atom.maxh = <<>> \/ (s.height # 0 /\ s.height <= DecVal(atom.maxh))

\* every stream is video-only, or every stream is audio-only
Incomplete(all) == (\A s \in all : s.v /\ ~s.a) \/ (\A s \in all : s.a /\ ~s.v)

\* the streams an atom may pick among `avail`, `all` being the full offer
AtomMatches(atom, avail, all) ==
    LET f == {s \in avail : PassesFilters(atom, s)}
        m == CASE atom.kind = "bestvideo" -> {s \in f : s.v /\ ~s.a}
               [] atom.kind = "bestaudio" -> {s \in f : s.a /\ ~s.v}
               [] OTHER -> {s \in f : s.v /\ s.a}
    IN IF m = {} /\ atom.kind = "best" /\ Incomplete(all) THEN f ELSE m

\* a merge a+b yields only when each of its atoms yields
MergeYields(merge, avail, all) == \A i \in 1..Len(merge) : AtomMatches(merge[i], avail, all) # {}

AltYields(alt, all) ==
    LET avail == IF alt.noM3u8 THEN {s \in all : s.proto # "m3u8"} ELSE all
    IN \E i \in 1..Len(alt.merges) : MergeYields(alt.merges[i], avail, all)

\* the first alternative of the selector that yields, 0 when none does
SelectFormat(selector, all) ==
    IF \E i \in 1..Len(selector) : AltYields(selector[i], all)
    THEN CHOOSE i \in 1..Len(selector) : AltYields(selector[i], all) /\ \A j \in 1..(i - 1) : ~AltYields(selector[j], all)
    ELSE 0

(* ------------------------------- state -------------------------------- *)
VARIABLES
    pc,            \* where the presentation thread is: __init__ steps, then the event loop
    search_paths,  \* find_ffmpeg: the candidate list (a local)
    idx,           \* find_ffmpeg: the loop position in search_paths
    fs,            \* what the probe has seen of each candidate file
    ffmpeg_path,   \* self.ffmpeg_path
    boot,          \* how auto_download_ffmpeg ended
    dialogs,       \* the message boxes shown so far (titles)
    url_input, format_box, quality_box, path_edit,   \* the form fields
    edits,         \* form edits made so far
    lastClick,     \* what the last Download click did
    wpc,           \* per worker: position in download()
    wloc,          \* per worker: the locals url, out_dir, quality, opts
    clicked,       \* per worker: the form as it was at the click that started it
    events,        \* per worker: the signals it has emitted, in order
    hooks,         \* per worker: progress-hook calls made by the backend
    dropped,       \* per worker: hook calls that were given a malformed payload
    calls,         \* per worker: invocations of ydl.download
    hook_d, hook_out,   \* progress adapter alone: a payload and what the hook did
    sel_req, sel_out    \* option builder alone: a request, the streams, the outcome

startupVars == <<pc, search_paths, idx, fs, ffmpeg_path, boot>>

formVars == <<url_input, format_box, quality_box, path_edit, edits>>

workerVars == <<wpc, wloc, clicked, events, hooks, dropped, calls>>

pureVars == <<hook_d, hook_out, sel_req, sel_out>>

vars == <<startupVars, dialogs, formVars, lastClick, workerVars, pureVars>>

\* one worker thread runs at a time; a click after it ended starts the next
Workers == {"w1"}

(* ------------------------- environment probe --------------------------- *)
\* the candidate executables find_ffmpeg builds, in order
FrozenPaths ==
    <<"MEIPASS/ffmpeg/bin/ffmpeg.exe", "MEIPASS/ffmpeg.exe", "MEIPASS/bin/ffmpeg.exe",
      "script/ffmpeg/bin/ffmpeg.exe", "script/ffmpeg/ffmpeg-release-essentials/bin/ffmpeg.exe",
      "script/ffmpeg.exe", "app/ffmpeg/bin/ffmpeg.exe", "app/ffmpeg.exe">>

\* not frozen: app_dir is script_dir, so two candidates come twice
ScriptPaths ==
    <<"script/ffmpeg/bin/ffmpeg.exe", "script/ffmpeg/ffmpeg-release-essentials/bin/ffmpeg.exe",
      "script/ffmpeg.exe", "script/ffmpeg/bin/ffmpeg.exe", "script/ffmpeg.exe">>

SearchPaths(frozen) == IF frozen THEN FrozenPaths ELSE ScriptPaths

Candidates == {FrozenPaths[i] : i \in 1..Len(FrozenPaths)}

\* an ffmpeg found along PATH outside the candidate directories
SystemFfmpeg == "PATH/ffmpeg"

\* the executable the installer unpacks
ExtractedFfmpeg == "download_dir/ffmpeg/ffmpeg.exe"

\* a candidate is: not there, a directory, a file whose "-version" run fails
\* (error, timeout, non-zero exit), or a file whose run exits 0
FileStates == {"absent", "dir", "broken", "ok"}

Unseen == "unseen"

\* os.path.exists(path) and os.path.isfile(path)
IsFile(st) == st \in {"broken", "ok"}

\* subprocess.run([path, "-version"], check=True, timeout=5) returns normally
VersionOk(st) == st = "ok"

\* the loop test of find_ffmpeg for one candidate
Accepts(st) == IsFile(st) /\ VersionOk(st)

\* find_ffmpeg starts: the candidate list is built
find_ffmpeg_begin ==
    /\ pc = "start"
    /\ \E frozen \in BOOLEAN : search_paths' = SearchPaths(frozen)
    /\ idx' = 1
    /\ pc' = "find_ffmpeg"
    /\ UNCHANGED <<fs, ffmpeg_path, boot, dialogs, formVars, lastClick, workerVars, pureVars>>

\* one iteration of "for path in search_paths"
find_ffmpeg_step ==
    /\ pc = "find_ffmpeg"
    /\ idx <= Len(search_paths)
    /\ LET path == search_paths[idx] IN
       \E st \in (IF fs[path] = Unseen THEN FileStates ELSE {fs[path]}) :
          /\ fs' = [fs EXCEPT ![path] = st]
          /\ IF Accepts(st)
             THEN ffmpeg_path' = path /\ pc' = "probed" /\ idx' = idx
             ELSE ffmpeg_path' = ffmpeg_path /\ pc' = pc /\ idx' = idx + 1
    /\ UNCHANGED <<search_paths, boot, dialogs, formVars, lastClick, workerVars, pureVars>>

\* what shutil.which("ffmpeg") can give: nothing, an ffmpeg elsewhere on PATH,
\* or a file in a candidate directory that is on PATH (or is the current directory)
WhichResults == {None, SystemFfmpeg} \cup {p \in Candidates : IsFile(fs[p])}

\* the loop is over: ff = shutil.which("ffmpeg"); return ff or None
find_ffmpeg_which ==
    /\ pc = "find_ffmpeg"
    /\ idx > Len(search_paths)
    /\ \E ff \in WhichResults : ffmpeg_path' = ff
    /\ pc' = "probed"
    /\ UNCHANGED <<search_paths, idx, fs, boot, dialogs, formVars, lastClick, workerVars, pureVars>>

(* ------------------------- bootstrap installer ------------------------- *)
\* the ways auto_download_ffmpeg can go once the question is asked
BootOutcomes == {"declined", "download_failed", "extract_failed", "remove_failed", "not_found", "installed"}

\* the path set as soon as the archive is unpacked, before the cleanup
BootPath_BeforeCleanup(outcome, path) == IF outcome \in {"installed", "remove_failed"} THEN ExtractedFfmpeg ELSE path

\* self.ffmpeg_path after auto_download_ffmpeg
BootPath(outcome, path) == IF outcome = "installed" THEN ExtractedFfmpeg ELSE path

\* the message boxes auto_download_ffmpeg shows
BootDialogs(outcome) ==
    {"FFmpeg Not Found"} \cup
    (CASE outcome = "declined" -> {}
       [] outcome = "installed" -> {"Success"}
       [] OTHER -> {"FFmpeg Error"})

\* the rest of __init__: the installer is offered when the probe found nothing,
\* then init_ui builds the form and the event loop starts
init_rest ==
    /\ pc = "probed"
    /\ IF ffmpeg_path = None
       THEN \E outcome \in BootOutcomes :
               /\ boot' = outcome
               /\ ffmpeg_path' = BootPath(outcome, ffmpeg_path)
               /\ dialogs' = dialogs \cup BootDialogs(outcome)
       ELSE UNCHANGED <<boot, ffmpeg_path, dialogs>>
    /\ search_paths' = <<>>
    /\ idx' = 0
    /\ fs' = [p \in Candidates |-> Unseen]
    /\ pc' = "ready"
    /\ UNCHANGED <<formVars, lastClick, workerVars, pureVars>>

(* -------------------------- presentation shell ------------------------ *)
\* texts the user may type into url_input
UrlTexts == {<<>>, <<" ">>, <<"a">>, <<" ", "b", " ">>}

\* what QFileDialog.getExistingDirectory returns ("" when cancelled)
Folders == {"", "dirA"}

Form == [url |-> url_input, fmt |-> format_box, quality |-> quality_box, dir |-> path_edit]

edit_url ==
    /\ pc = "ready"
    /\ edits < MaxEdits
    /\ \E u \in UrlTexts \ {url_input} : url_input' = u
    /\ edits' = edits + 1
    /\ UNCHANGED <<startupVars, dialogs, format_box, quality_box, path_edit, lastClick, workerVars, pureVars>>

select_format ==
    /\ pc = "ready"
    /\ edits < MaxEdits
    /\ \E f \in FormatItems \ {format_box} : format_box' = f
    /\ edits' = edits + 1
    /\ UNCHANGED <<startupVars, dialogs, url_input, quality_box, path_edit, lastClick, workerVars, pureVars>>

select_quality ==
    /\ pc = "ready"
    /\ edits < MaxEdits
    /\ \E q \in QualityItems \ {quality_box} : quality_box' = q
    /\ edits' = edits + 1
    /\ UNCHANGED <<startupVars, dialogs, url_input, format_box, path_edit, lastClick, workerVars, pureVars>>

pick_folder ==
    /\ pc = "ready"
    /\ edits < MaxEdits
    /\ \E folder \in Folders :
          path_edit' = IF folder # "" THEN folder ELSE path_edit
    /\ edits' = edits + 1
    /\ UNCHANGED <<startupVars, dialogs, url_input, format_box, quality_box, lastClick, workerVars, pureVars>>

\* "if not self.ffmpeg_path"
NoTranscoder(path) == path = None

NoLocals == [url |-> <<>>, out_dir |-> "", quality |-> <<>>, fmt |-> ""]

\* start_download without its transcoder check
start_download_unchecked ==
    /\ pc = "ready"
    /\ \E w \in Workers :
          /\ wpc[w] \in {"idle", "done"}
          /\ wpc' = [wpc EXCEPT ![w] = "read_url"]
          /\ clicked' = [clicked EXCEPT ![w] = Form]
          /\ wloc' = [wloc EXCEPT ![w] = NoLocals]
          /\ events' = [events EXCEPT ![w] = <<>>]
          /\ hooks' = [hooks EXCEPT ![w] = 0]
          /\ dropped' = [dropped EXCEPT ![w] = 0]
          /\ calls' = [calls EXCEPT ![w] = <<>>]
          /\ lastClick' = [form |-> Form, outcome |-> "started"]
    /\ UNCHANGED <<startupVars, dialogs, formVars, pureVars>>

\* the Download button: refuse without a transcoder, else start a worker thread
start_download ==
    /\ pc = "ready"
    /\ IF NoTranscoder(ffmpeg_path)
       THEN /\ dialogs' = dialogs \cup {"Error"}
            /\ lastClick' = [form |-> Form, outcome |-> "blocked"]
            /\ UNCHANGED workerVars
       ELSE \E w \in Workers :
            /\ wpc[w] \in {"idle", "done"}
            /\ wpc' = [wpc EXCEPT ![w] = "read_url"]
            /\ clicked' = [clicked EXCEPT ![w] = Form]
            /\ wloc' = [wloc EXCEPT ![w] = NoLocals]
            /\ events' = [events EXCEPT ![w] = <<>>]
            /\ hooks' = [hooks EXCEPT ![w] = 0]
            /\ dropped' = [dropped EXCEPT ![w] = 0]
            /\ calls' = [calls EXCEPT ![w] = <<>>]
            /\ lastClick' = [form |-> Form, outcome |-> "started"]
            /\ UNCHANGED dialogs
    /\ UNCHANGED <<startupVars, formVars, pureVars>>

(* ------------------------------ job runner ----------------------------- *)
\* download(), lines 135-138
download_read_url(w) ==
    /\ wpc[w] = "read_url"
    /\ LET url == Strip(url_input) IN
       /\ wloc' = [wloc EXCEPT ![w].url = url]
       /\ IF url = <<>>
          THEN /\ events' = [events EXCEPT ![w] = Append(@, Emit("status", <<"Error: No URL provided">>))]
               /\ wpc' = [wpc EXCEPT ![w] = "done"]
          ELSE /\ events' = events
               /\ wpc' = [wpc EXCEPT ![w] = "read_dir"]
    /\ UNCHANGED <<startupVars, dialogs, formVars, lastClick, clicked, hooks, dropped, calls, pureVars>>

\* line 140
download_read_dir(w) ==
    /\ wpc[w] = "read_dir"
    /\ wloc' = [wloc EXCEPT ![w].out_dir = path_edit]
    /\ wpc' = [wpc EXCEPT ![w] = "read_quality"]
    /\ UNCHANGED <<startupVars, dialogs, formVars, lastClick, clicked, events, hooks, dropped, calls, pureVars>>

\* line 141
download_read_quality(w) ==
    /\ wpc[w] = "read_quality"
    /\ wloc' = [wloc EXCEPT ![w].quality = QualityOf(quality_box)]
    /\ wpc' = [wpc EXCEPT ![w] = "read_format"]
    /\ UNCHANGED <<startupVars, dialogs, formVars, lastClick, clicked, events, hooks, dropped, calls, pureVars>>

\* the check of lines 183-188 on the video path
NotAccessible(fmt, path, exists) == fmt # "MP3" /\ (NoTranscoder(path) \/ ~exists)

\* lines 144-197: the format is read, the options are built; the video path
\* stops without an accessible transcoder; otherwise the job is announced and
\* ydl.download(opts) is entered
download_build(w) ==
    /\ wpc[w] = "read_format"
    /\ wloc' = [wloc EXCEPT ![w].fmt = format_box]
    /\ \E exists \in BOOLEAN :
          IF NotAccessible(format_box, ffmpeg_path, exists)
          THEN /\ events' = [events EXCEPT ![w] = Append(@, Emit("status", <<"Error: FFmpeg not accessible">>))]
               /\ dialogs' = dialogs \cup {"FFmpeg Error"}
               /\ wpc' = [wpc EXCEPT ![w] = "done"]
               /\ calls' = calls
          ELSE /\ events' = [events EXCEPT ![w] = @ \o <<Emit("status", <<"Starting download...">>), Emit("progress", 0)>>]
               /\ dialogs' = dialogs
               /\ wpc' = [wpc EXCEPT ![w] = "ydl"]
               /\ calls' = [calls EXCEPT ![w] = Append(@, [url |-> wloc[w].url, opts |-> BuildOpts(wloc[w].out_dir, wloc[w].quality, format_box, ffmpeg_path)])]
    /\ UNCHANGED <<startupVars, formVars, lastClick, clicked, hooks, dropped, pureVars>>

\* a progress payload: d["status"], d["_percent_str"], d["_speed_str"]
Payload(status, pct, speed) == [status |-> status, pct |-> pct, speed |-> speed]

\* well-formed payloads the backend hands to the hook during a job
GoodPayloads ==
    {Payload("downloading", <<"1", "0", ".", "0", "%">>, <<" ", "1", "M">>),
     Payload("downloading", <<" ", "1", "0", "0", "%">>, Missing),
     Payload("finished", Missing, Missing)}

\* malformed ones: no "_percent_str" key, a percentage that is no number, a
\* speed that is no str
MalformedPayloads ==
    {Payload("downloading", Missing, <<"1", "M">>),
     Payload("downloading", <<"N", "/", "A">>, <<"1", "M">>),
     Payload("downloading", <<"5", "0", "%">>, NonStr)}

JobPayloads == GoodPayloads \cup MalformedPayloads

\* texts of the failures ydl.download raises
Failures == {"Requested format is not available"}

\* the text of an exception that left progress_hook
HookFailure == "exception in progress hook"

\* lines 200-205: the except branch of download()
Fail(w, msg) ==
    /\ events' = [events EXCEPT ![w] = Append(@, Emit("status", <<"Error: ", msg>>))]
    /\ dialogs' = dialogs \cup {"Download Error"}
    /\ wpc' = [wpc EXCEPT ![w] = "done"]

\* inside ydl.download: the backend calls progress_hook with a payload
ydl_hook(w) ==
    /\ wpc[w] = "ydl"
    /\ hooks[w] < MaxHooks
    /\ \E d \in JobPayloads :
          /\ hooks' = [hooks EXCEPT ![w] = @ + 1]
          /\ dropped' = [dropped EXCEPT ![w] = @ + (IF d \in MalformedPayloads THEN 1 ELSE 0)]
          /\ IF progress_hook(d).raised
             THEN Fail(w, HookFailure)
             ELSE /\ events' = [events EXCEPT ![w] = @ \o progress_hook(d).events]
                  /\ UNCHANGED <<dialogs, wpc>>
    /\ UNCHANGED <<startupVars, formVars, lastClick, wloc, clicked, calls, pureVars>>

\* the completion branch with progress 100 emitted before the status
download_completed_progress_first(w) ==
    /\ wpc[w] = "ydl"
    /\ events' = [events EXCEPT ![w] = @ \o <<Emit("progress", 100), Emit("status", <<"Download completed!">>)>>]
    /\ wpc' = [wpc EXCEPT ![w] = "done"]
    /\ UNCHANGED <<startupVars, dialogs, formVars, lastClick, wloc, clicked, hooks, dropped, calls, pureVars>>

\* lines 198-199: ydl.download returned (the status text is "Download completed!" after a check mark)
download_completed(w) ==
    /\ wpc[w] = "ydl"
    /\ events' = [events EXCEPT ![w] = @ \o <<Emit("status", <<"Download completed!">>), Emit("progress", 100)>>]
    /\ wpc' = [wpc EXCEPT ![w] = "done"]
    /\ UNCHANGED <<startupVars, dialogs, formVars, lastClick, wloc, clicked, hooks, dropped, calls, pureVars>>

\* an except branch that reports the failure and runs ydl.download again
download_failed_retrying(w) ==
    /\ wpc[w] = "ydl"
    /\ \E msg \in Failures :
          events' = [events EXCEPT ![w] = Append(@, Emit("status", <<"Error: ", msg>>))]
    /\ dialogs' = dialogs \cup {"Download Error"}
    /\ calls' = [calls EXCEPT ![w] = Append(@, @[1])]
    /\ UNCHANGED <<startupVars, formVars, lastClick, wpc, wloc, clicked, hooks, dropped, pureVars>>

\* lines 200-205: ydl.download raised
download_failed(w) ==
    /\ wpc[w] = "ydl"
    /\ \E msg \in Failures : Fail(w, msg)
    /\ UNCHANGED <<startupVars, formVars, lastClick, wloc, clicked, hooks, dropped, calls, pureVars>>

(* ----------------------------- whole program --------------------------- *)
NoForm == [url |-> <<>>, fmt |-> "", quality |-> <<>>, dir |-> ""]

NoPayload == Payload("", <<>>, <<>>)

NoHookOut == [events |-> <<>>, raised |-> FALSE, done |-> FALSE]

NoRequest == [fmt |-> "", quality |-> <<>>, streams |-> {}]

NoSelection == [selector |-> <<>>, chosen |-> 0, done |-> FALSE]

\* the form as init_ui builds it, no worker started
InitShell ==
    /\ url_input = <<>>
    /\ format_box = "MP4"
    /\ quality_box = <<"B", "e", "s", "t">>
    /\ path_edit = "cwd"
    /\ edits = 0
    /\ lastClick = [form |-> NoForm, outcome |-> "none"]
    /\ wpc = [w \in Workers |-> "idle"]
    /\ wloc = [w \in Workers |-> NoLocals]
    /\ clicked = [w \in Workers |-> NoForm]
    /\ events = [w \in Workers |-> <<>>]
    /\ hooks = [w \in Workers |-> 0]
    /\ dropped = [w \in Workers |-> 0]
    /\ calls = [w \in Workers |-> <<>>]
    /\ dialogs = {}

InitStartup ==
    /\ search_paths = <<>>
    /\ idx = 0
    /\ fs = [p \in Candidates |-> Unseen]
    /\ ffmpeg_path = None
    /\ boot = "none"

InitPure ==
    /\ hook_d = NoPayload
    /\ hook_out = NoHookOut
    /\ sel_req = NoRequest
    /\ sel_out = NoSelection

\* the process starts: Downloader.__init__ is about to probe for the transcoder
InitProcess == pc = "start" /\ InitStartup /\ InitShell /\ InitPure

\* __init__ up to the event loop, and the clicks and edits that follow it
NextStartup ==
    \/ find_ffmpeg_begin
    \/ find_ffmpeg_step
    \/ find_ffmpeg_which
    \/ init_rest
    \/ select_format
    \/ start_download

SpecStartup == InitProcess /\ [][NextStartup]_vars

\* the states __init__ ends in: no transcoder (the installer declined or
\* failed), or one found by the probe, or one the installer unpacked
ReadyStates == {[path |-> None, boot |-> "declined"], [path |-> SystemFfmpeg, boot |-> "none"]}

\* the event loop starts
Init ==
    /\ pc = "ready"
    /\ search_paths = <<>>
    /\ idx = 0
    /\ fs = [p \in Candidates |-> Unseen]
    /\ \E r \in ReadyStates : ffmpeg_path = r.path /\ boot = r.boot
    /\ InitShell
    /\ InitPure

\* the event loop of the presentation thread and the worker threads
Next ==
    \/ edit_url
    \/ select_format
    \/ select_quality
    \/ pick_folder
    \/ start_download
    \/ \E w \in Workers : download_read_url(w)
    \/ \E w \in Workers : download_read_dir(w)
    \/ \E w \in Workers : download_read_quality(w)
    \/ \E w \in Workers : download_build(w)
    \/ \E w \in Workers : ydl_hook(w)
    \/ \E w \in Workers : download_completed(w)
    \/ \E w \in Workers : download_failed(w)

Spec == Init /\ [][Next]_vars

(* ----------------------- progress adapter alone ------------------------ *)
\* characters of the "_percent_str" values explored
PctAlphabet == {"0", "1", "9", ".", "-", "%", " ", "x"}

TextsUpTo(n) == UNION {[1..k -> PctAlphabet] : k \in 0..n}

\* d["_percent_str"]: a text of at most n characters, or no such key, or a
\* value that is no str
PctValues(n) == TextsUpTo(n) \cup {Missing, NonStr}

SpeedValues == {Missing, NonStr, <<" ", "1", "M", " ">>}

HookStatuses == {"downloading", "finished", "error"}

InitHook ==
    /\ pc = "hook"
    /\ InitStartup
    /\ InitShell
    /\ hook_d \in [status : HookStatuses, pct : PctValues(MaxPctLen), speed : SpeedValues]
    /\ hook_out = NoHookOut
    /\ sel_req = NoRequest
    /\ sel_out = NoSelection

\* the backend calls progress_hook(hook_d)
hook_apply ==
    /\ pc = "hook"
    /\ ~hook_out.done
    /\ hook_out' = [events |-> progress_hook(hook_d).events, raised |-> progress_hook(hook_d).raised, done |-> TRUE]
    /\ UNCHANGED <<startupVars, dialogs, formVars, lastClick, workerVars, hook_d, sel_req, sel_out>>

SpecHook == InitHook /\ [][hook_apply]_vars

(* ------------------------ option builder alone ------------------------- *)
StreamSets(n) == {S \in SUBSET StreamPool : Cardinality(S) >= 1 /\ Cardinality(S) <= n}

InitSel ==
    /\ pc = "select"
    /\ InitStartup
    /\ InitShell
    /\ hook_d = NoPayload
    /\ hook_out = NoHookOut
    /\ sel_req \in [fmt : FormatItems, quality : QualityItems, streams : StreamSets(MaxStreams)]
    /\ sel_out = NoSelection

\* download() builds opts["format"] from the request and the backend
\* evaluates it on the streams it found
select_apply ==
    /\ pc = "select"
    /\ ~sel_out.done
    /\ LET selector == FormatSelector(sel_req.fmt, QualityOf(sel_req.quality)) IN
       sel_out' = [selector |-> selector, chosen |-> SelectFormat(selector, sel_req.streams), done |-> TRUE]
    /\ UNCHANGED <<startupVars, dialogs, formVars, lastClick, workerVars, hook_d, hook_out, sel_req>>

SpecSel == InitSel /\ [][select_apply]_vars

(* ------------------------------- claims -------------------------------- *)
\* a Download click was made with the form showing format f
ClickedWith(f) == lastClick.outcome # "none" /\ lastClick.form.fmt = f

\* C1: while the transcoder path is none, every Download click made with the
\* format MP4 is refused with the "Error" box, no worker thread is started and
\* ydl.download is never invoked, whatever the URL, quality and folder are.
C1_VideoFailsFast ==
    ffmpeg_path = None =>
        /\ \A w \in Workers : wpc[w] = "idle" /\ calls[w] = <<>>
        /\ ClickedWith("MP4") => lastClick.outcome = "blocked" /\ "Error" \in dialogs

\* C1 witness: a video click with a URL typed in was refused for want of a transcoder
C1_Witness ==
    /\ ffmpeg_path = None
    /\ ClickedWith("MP4")
    /\ Strip(lastClick.form.url) # <<>>
    /\ lastClick.outcome = "blocked"

\* C2 (as claimed): with no transcoder and the installer declined or failed, a
\* Download click with the format MP3 and a non-empty URL starts a worker.
C2_AudioNeedsNoTranscoder ==
    (ffmpeg_path = None /\ boot # "installed" /\ ClickedWith("MP3") /\ Strip(lastClick.form.url) # <<>>)
        => lastClick.outcome = "started"

\* shapes of the signals a job emits
IsStatus(e, text) == e.sig = "status" /\ e.val = <<text>>

IsProgress(e, n) == e.sig = "progress" /\ e.val = n

IsSpeed(e, text) == e.sig = "speed" /\ e.val = text

\* the Completed event
IsCompleted(e) == IsStatus(e, "Download completed!")

\* a Failed event: the status "Error: " followed by the failure's text
IsFailed(e) == e.sig = "status" /\ Len(e.val) = 2 /\ e.val[1] = "Error: "

\* the two signals one well-formed hook call emits
IsHookPair(e1, e2) ==
    \/ e1.sig = "progress" /\ e2.sig = "speed"
    \/ IsStatus(e1, "Processing & merging...") /\ IsProgress(e2, 95)

HasCompleted(w) == \E i \in DOMAIN events[w] : IsCompleted(events[w][i])

\* C4 (as claimed): Completed comes after a progress value of 100 and no
\* progress event of the job follows it.
C4_CompletedIsLast ==
    \A w \in Workers : \A i \in DOMAIN events[w] :
        IsCompleted(events[w][i]) =>
            /\ \E j \in 1..(i - 1) : IsProgress(events[w][j], 100)
            /\ \A j \in (i + 1)..Len(events[w]) : events[w][j].sig # "progress"
            /\ \A j \in DOMAIN events[w] : ~IsFailed(events[w][j])

\* C4 (amended): a job whose download returned normally has emitted, in order,
\* "Starting download...", progress 0, the hook's signals in the order of the
\* backend's calls, then Completed and last progress 100; it has emitted
\* Completed once and no Failed event, and it has ended.
C4_CompletedThenHundred ==
    \A w \in Workers :
        HasCompleted(w) =>
            LET ev == events[w]
                n == Len(ev)
            IN /\ wpc[w] = "done"
               /\ n >= 4
               /\ IsStatus(ev[1], "Starting download...")
               /\ IsProgress(ev[2], 0)
               /\ IsCompleted(ev[n - 1])
               /\ IsProgress(ev[n], 100)
               /\ n % 2 = 0
               /\ \A k \in 2..((n \div 2) - 1) : IsHookPair(ev[2 * k - 1], ev[2 * k])
               /\ \A i \in 1..n : ~IsFailed(ev[i]) /\ (IsCompleted(ev[i]) => i = n - 1)

\* C4 witness: the backend reported 10%, 100%, finished and returned
C4_Witness ==
    \E w \in Workers :
        LET ev == events[w] IN
        /\ Len(ev) = 10
        /\ IsStatus(ev[1], "Starting download...") /\ IsProgress(ev[2], 0)
        /\ IsProgress(ev[3], 10) /\ IsSpeed(ev[4], <<"Speed: ", "1", "M">>)
        /\ IsProgress(ev[5], 100) /\ IsSpeed(ev[6], <<"Speed: ">>)
        /\ IsStatus(ev[7], "Processing & merging...") /\ IsProgress(ev[8], 95)
        /\ IsCompleted(ev[9]) /\ IsProgress(ev[10], 100)

\* C5: a job whose download raised has emitted one Failed event, carrying the
\* failure's text, as its last event and has ended: no Completed and nothing
\* else follows it, and ydl.download was invoked once.
C5_FailedOnceNoRetry ==
    \A w \in Workers :
        /\ Len(calls[w]) <= 1
        /\ \A i \in DOMAIN events[w] :
              IsFailed(events[w][i]) =>
                  /\ i = Len(events[w])
                  /\ wpc[w] = "done"
                  /\ events[w][i].val[2] \in Failures
                  /\ Len(calls[w]) = 1
                  /\ \A j \in DOMAIN events[w] : j # i => ~IsFailed(events[w][j]) /\ ~IsCompleted(events[w][j])

\* C5 witness: the download reached 100% and then raised
C5_Witness ==
    \E w \in Workers :
        /\ wpc[w] = "done"
        /\ events[w] # <<>>
        /\ IsFailed(events[w][Len(events[w])])
        /\ \E j \in DOMAIN events[w] : IsProgress(events[w][j], 100)

\* the signals the end of a job added: Completed and 100, or one Failed event
TerminalEvents(w) ==
    LET ev == events[w]
        n == Len(ev)
    IN IF n >= 2 /\ IsCompleted(ev[n - 1]) THEN 2 ELSE IF n >= 1 /\ IsFailed(ev[n]) THEN 1 ELSE 0

\* C7: a malformed payload adds no signal of any kind to the job's output and
\* the hook raises nothing into ydl.download: a job's output is its two
\* opening signals, two signals per well-formed hook call, and its terminal
\* event once it has ended.
C7_MalformedDropped ==
    \A w \in Workers :
        calls[w] # <<>> =>
            /\ dropped[w] <= hooks[w]
            /\ Len(events[w]) = 2 + 2 * (hooks[w] - dropped[w]) + TerminalEvents(w)
            /\ (wpc[w] = "done") = (TerminalEvents(w) > 0)
            /\ \A i \in DOMAIN events[w] : IsFailed(events[w][i]) => events[w][i].val[2] # HookFailure

\* C7 witness: a job was handed malformed and well-formed payloads and completed
C7_Witness ==
    \E w \in Workers :
        /\ wpc[w] = "done"
        /\ dropped[w] >= 1
        /\ hooks[w] > dropped[w]
        /\ HasCompleted(w)

\* C9 (as claimed): the URL and options a worker hands to ydl.download are
\* those of the form at the click that started it.
C9_RequestImmutable ==
    \A w \in Workers :
        calls[w] # <<>> =>
            calls[w][1] = [url |-> Strip(clicked[w].url),
                           opts |-> BuildOpts(clicked[w].dir, QualityOf(clicked[w].quality), clicked[w].fmt, ffmpeg_path)]

\* the percentage text without surrounding whitespace and one trailing "%"
Core(p) ==
    LET t == Strip(p) IN
    IF t # <<>> /\ t[Len(t)] = "%" THEN SubSeq(t, 1, Len(t) - 1) ELSE t

\* "_percent_str" is a number, optionally followed by "%", in whitespace
NumericText(p) == p \notin {Missing, NonStr} /\ IsUnsignedDec(Unsigned(Core(p)))

\* n is x with its fraction cut off
IsTruncOf(n, x) ==
    IF x.num >= 0
    THEN n >= 0 /\ n * x.den <= x.num /\ x.num < (n + 1) * x.den
    ELSE n <= 0 /\ n * x.den >= x.num /\ x.num > (n - 1) * x.den

\* the hook ran on a downloading payload with a numeric percentage whose speed
\* is a str or absent
HookRan ==
    /\ hook_out.done
    /\ hook_d.status = "downloading"
    /\ NumericText(hook_d.pct)
    /\ hook_d.speed # NonStr

\* C6 (as claimed): for a numeric percentage the hook emits the truncated
\* value, and it lies in 0..100.
C6_PercentInRange ==
    HookRan =>
        /\ Len(hook_out.events) >= 1
        /\ hook_out.events[1].sig = "progress"
        /\ IsTruncOf(hook_out.events[1].val, Float(Core(hook_d.pct)))
        /\ hook_out.events[1].val >= 0
        /\ hook_out.events[1].val <= 100

\* C6 (amended): for a numeric percentage (the speed a str or absent) the hook
\* emits the value truncated toward zero, unclamped: it lies in 0..100 exactly
\* when the number is above -1 and below 101.
C6_PercentTruncated ==
    HookRan =>
        LET x == Float(Core(hook_d.pct)) IN
        /\ Len(hook_out.events) = 2
        /\ hook_out.events[1].sig = "progress"
        /\ hook_out.events[2].sig = "speed"
        /\ IsTruncOf(hook_out.events[1].val, x)
        /\ (hook_out.events[1].val \in 0..100) = (x.num > -x.den /\ x.num < 101 * x.den)

\* C6 witness: "101%" was reported as 101
C6_Witness ==
    /\ hook_out.done
    /\ hook_d.status = "downloading"
    /\ hook_d.pct = <<"1", "0", "1", "%">>
    /\ Len(hook_out.events) = 2
    /\ IsProgress(hook_out.events[1], 101)

\* the height a quality item stands for (0 for "Best")
CeilingOf(item) ==
    CASE item = <<"1", "0", "8", "0", "p">> -> 1080
      [] item = <<"7", "2", "0", "p">> -> 720
      [] item = <<"4", "8", "0", "p">> -> 480
      [] OTHER -> 0

\* a video request with a numeric ceiling was evaluated
CeilingRequest == sel_out.done /\ sel_req.fmt = "MP4" /\ CeilingOf(sel_req.quality) # 0

LastAlt == sel_out.selector[Len(sel_out.selector)]

\* C3 (as claimed): the last alternative is an unconstrained "best" and the
\* selector yields a stream for every non-empty offer.
C3_FallsBackToBest ==
    CeilingRequest =>
        /\ LastAlt.merges = << <<Atom("best", "", <<>>)>> >>
        /\ sel_out.chosen # 0

\* C3 (amended): the last alternative is "best" under the same height
\* ceiling: the selector yields a stream whenever the offer holds a stream with
\* video and audio at or below the ceiling, and yields none whenever no
\* stream with video is at or below the ceiling.
C3_CeilingKept ==
    CeilingRequest =>
        LET c == CeilingOf(sel_req.quality) IN
        /\ Len(LastAlt.merges) = 1
        /\ Len(LastAlt.merges[1]) = 1
        /\ LastAlt.merges[1][1].kind = "best"
        /\ LastAlt.merges[1][1].maxh # <<>>
        /\ DecVal(LastAlt.merges[1][1].maxh) = c
        /\ (\E s \in sel_req.streams : s.v /\ s.a /\ s.height <= c) => sel_out.chosen # 0
        /\ (\A s \in sel_req.streams : s.v => s.height > c) => sel_out.chosen = 0

\* C3 witness: every stream offered is above a 480 ceiling and nothing is selected
C3_Witness ==
    /\ CeilingRequest
    /\ CeilingOf(sel_req.quality) = 480
    /\ \E s \in sel_req.streams : s.v /\ s.a
    /\ \A s \in sel_req.streams : s.v => s.height > 480
    /\ sel_out.chosen = 0

\* the candidates the probe has looked at and turned down
Rejected == {p \in Candidates : fs[p] \in {"absent", "dir", "broken"}}

\* position of the first candidate of the list seen to run, 0 when none
FirstOk ==
    IF \E i \in 1..Len(search_paths) : fs[search_paths[i]] = "ok"
    THEN CHOOSE i \in 1..Len(search_paths) : fs[search_paths[i]] = "ok" /\ \A j \in 1..(i - 1) : fs[search_paths[j]] # "ok"
    ELSE 0

\* C8 (as claimed): find_ffmpeg returns the first candidate in order that
\* passes the version query, a candidate that was turned down is never
\* returned, and without an accepted candidate the result is the search
\* path's answer.
C8_FirstAccepted ==
    pc = "probed" =>
        /\ ffmpeg_path \notin Rejected
        /\ FirstOk # 0 => ffmpeg_path = search_paths[FirstOk]
        /\ FirstOk = 0 => ffmpeg_path \in {None, SystemFfmpeg}

\* the installer ended without installing
BootFailed == boot \in {"download_failed", "extract_failed", "remove_failed", "not_found"}

\* a critical message box has been shown
ErrorReported == dialogs \cap {"FFmpeg Error", "Error", "Download Error"} # {}

\* C10 (as claimed): after a failed or a declined installation the path is
\* none, an error has been reported and a video click is refused; the path is
\* the unpacked executable only when it was found.
C10_BootLeavesUnresolved ==
    pc = "ready" =>
        /\ (BootFailed \/ boot = "declined") =>
              /\ ffmpeg_path = None
              /\ ErrorReported
              /\ ClickedWith("MP4") => lastClick.outcome = "blocked"
        /\ ffmpeg_path = ExtractedFfmpeg => boot = "installed"

\* C10 (amended): after a failed installation the path is none and the
\* "FFmpeg Error" box has been shown; after a declined one the path is none and
\* the installer has shown no error (the "Error" box appears once a download is
\* clicked); in both cases every Download click is refused with the "Error"
\* box and starts no worker; the path is the unpacked executable exactly when
\* it was found after extraction.
C10_BootFailureReported ==
    pc = "ready" =>
        /\ BootFailed => ffmpeg_path = None /\ "FFmpeg Error" \in dialogs
        /\ boot = "declined" => ffmpeg_path = None /\ "FFmpeg Error" \notin dialogs
        /\ (BootFailed \/ boot = "declined") =>
              /\ ("Error" \in dialogs) = (lastClick.outcome = "blocked")
              /\ lastClick.outcome # "started"
              /\ \A w \in Workers : wpc[w] = "idle"
        /\ (ffmpeg_path = ExtractedFfmpeg) = (boot = "installed")

\* C10 witness: the executable was not in the unpacked tree and a video click was refused
C10_Witness ==
    /\ pc = "ready"
    /\ boot = "not_found"
    /\ ClickedWith("MP4")
    /\ lastClick.outcome = "blocked"

====
